---- MODULE Spec2Model ----
(***************************************************************************)
(* Model of src/src/main.cpp: a BLE central that scans for peripherals     *)
(* whose name starts with "Skp", lets the operator pick one over the       *)
(* serial console, connects, explores the services and writes the control  *)
(* register.                                                               *)
(*                                                                         *)
(* Two threads of control exist on the target: the Arduino loop task       *)
(* (loop(), processUserSelection(), connectToDevice()) and the BLE host    *)
(* task that runs the callbacks (onResult, the scan-complete lambda,       *)
(* onConnect, onDisconnect).  The loop task is modelled by a program       *)
(* counter pc with one step per statement group of connectToDevice; a      *)
(* callback is one atomic action that may run between two loop-task steps, *)
(* except onDisconnect, whose startScan() is cut where it has cleared the   *)
(* registry and not yet the prompt flag.  exploreService and the two       *)
(* decoders are checked under a specification of their own, ExploreSpec.   *)
(***************************************************************************)
EXTENDS Integers, Sequences, FiniteSets, TLC

\* ---------------------------------------------------------------- bounds
\* at most this many disconnect events wait for their callback at one time
MaxDiscEvents == 1

\* ------------------------------------------------------- input alphabets
Addrs == {1, 2}              \* hardware addresses, in std::string key order
Rssis == {-70, -40}
NULL == "nullptr"            \* a null BLEClient* or service map
NoDevice == [null |-> TRUE]  \* a null BLEAdvertisedDevice*
NoLine == << >>             \* the serial receive buffer is empty
NoRssi == << >>             \* no qualifying advertisement seen yet

TARGET_DEVICE_PREFIX == <<"S", "k", "p">>

\* what the scanner hands to onResult: every address with a qualifying name
\* at every signal strength, and advertisements that do not qualify: a name
\* shorter than the prefix, the prefix not at the start, no name at all
Advertisements ==
    [haveName : {TRUE}, name : {<<"S", "k", "p", "1">>},
     addr : Addrs, rssi : Rssis]
      \cup {[haveName |-> TRUE, name |-> <<"S", "k">>,
              addr |-> 1, rssi |-> -40],
            [haveName |-> TRUE, name |-> <<"x", "S", "k", "p">>,
              addr |-> 2, rssi |-> -70],
            [haveName |-> FALSE, name |-> << >>, addr |-> 1, rssi |-> -70]}

\* lines the operator can send on the serial console
Lines == { <<"0">>, <<"1">>, <<"2">>, <<"9">>, <<"-", "1">>, <<"x">>,
           <<"1", "x">>, <<" ", "2", " ">> }

VARIABLES
    pc,                  \* position of the loop task
    pClient,             \* BLEClient* pClient
    linkUp,              \* pClient->isConnected(): the link of the client
    discEvents,          \* disconnect events whose onDisconnect has not run
    targetDevice,        \* BLEAdvertisedDevice* targetDevice
    deviceFound, isConnected, scanCompleted, waitingForUserInput,
    foundDevices,        \* std::map address -> (device copy, rssi)
    sortedDevices,       \* std::vector<(address, rssi)>
    scanActive,          \* a scan round started by pBLEScan->start is running
    serialIn,            \* serial receive buffer: NoLine or <<line>>
    scanTick,            \* history: flips at every call of startScan
    latest,              \* history: rssi of the last admitted adv per address
    cb,                  \* position of the BLE host task inside onDisconnect
    leaked,              \* history: a device copy is lost, unfreed
    gatt,                \* the attribute table of the connected peripheral
    unlockCalls,         \* history: writer calls in the current session
    unlockRet,           \* history: what the last writer call returned
    written,             \* history: the writes the last writer call issued
    chrs,                \* the characteristics of a service being explored
    chrPos,              \* exploreService: the characteristic reached
    xpc,                 \* exploreService: position in the loop body
    formattedValue,      \* exploreService: String formattedValue
    emitted              \* the "Value:" texts exploreService has printed

\* the loop task, the registry and the scanner
ctl == <<pc, pClient, linkUp, discEvents, targetDevice, deviceFound,
         isConnected, scanCompleted, waitingForUserInput, foundDevices,
         sortedDevices, scanActive, serialIn, scanTick, latest, cb, leaked>>

\* the control-register writer
unlock == <<gatt, unlockCalls, unlockRet, written>>

\* the attribute tree explorer
explorer == <<chrs, chrPos, xpc, formattedValue, emitted>>

vars == <<ctl, unlock, explorer>>

\* ------------------------------------------------------- pure operators
\* std::string::find(prefix) == 0
StartsWith(name, prefix) ==
    /\ Len(name) >= Len(prefix)
    /\ SubSeq(name, 1, Len(prefix)) = prefix

\* the advertisement carries a name that begins with S, k, p
QualifyingName(ad) ==
    /\ ad.haveName
    /\ Len(ad.name) >= 3
    /\ ad.name[1] = "S" /\ ad.name[2] = "k" /\ ad.name[3] = "p"

\* the condition of onResult
Admitted(ad) == ad.haveName /\ StartsWith(ad.name, TARGET_DEVICE_PREFIX)

\* new BLEAdvertisedDevice(advertisedDevice)
DeviceCopy(ad) == [addr |-> ad.addr, name |-> ad.name]

Keys(reg) == {e.key : e \in reg}

\* mutant of MapAssign: std::map::insert, which keeps an entry that exists
MapInsertOnly(reg, address, dev, rssi) ==
    IF address \in Keys(reg) THEN reg
    ELSE reg \cup {[key |-> address, dev |-> dev, rssi |-> rssi]}

\* foundDevices[address] = std::make_pair(deviceCopy, rssi)
MapAssign(reg, address, dev, rssi) ==
    {e \in reg : e.key # address}
      \cup {[key |-> address, dev |-> dev, rssi |-> rssi]}

\* foundDevices[address] for a key that is present
MapAt(reg, address) == CHOOSE e \in reg : e.key = address

\* the loop of startScan that deletes every stored copy, then clear()
ClearRegistry(reg) == {}

IsSpace(c) == c = " "
IsDigit(c) == c \in {"0", "1", "2", "3", "4", "5", "6", "7", "8", "9"}
DigitVal(c) ==
    CASE c = "0" -> 0 [] c = "1" -> 1 [] c = "2" -> 2 [] c = "3" -> 3
      [] c = "4" -> 4 [] c = "5" -> 5 [] c = "6" -> 6 [] c = "7" -> 7
      [] c = "8" -> 8 [] c = "9" -> 9

RECURSIVE TrimLeft(_)
TrimLeft(s) == IF s # << >> /\ IsSpace(Head(s)) THEN TrimLeft(Tail(s)) ELSE s

RECURSIVE TrimRight(_)
TrimRight(s) ==
    IF s # << >> /\ IsSpace(s[Len(s)])
    THEN TrimRight(SubSeq(s, 1, Len(s) - 1)) ELSE s

\* String::trim()
Trim(s) == TrimRight(TrimLeft(s))

RECURSIVE Digits(_, _)
Digits(s, acc) ==
    IF s # << >> /\ IsDigit(Head(s))
    THEN Digits(Tail(s), 10 * acc + DigitVal(Head(s))) ELSE acc

\* String::toInt(): leading blanks, an optional sign, then the leading digits
ToInt(s) ==
    LET t == TrimLeft(s) IN
    IF t = << >> THEN 0
    ELSE IF Head(t) = "-" THEN 0 - Digits(Tail(t), 0)
    ELSE IF Head(t) = "+" THEN Digits(Tail(t), 0)
    ELSE Digits(t, 0)

\* the for loop of displayFoundDevices: the map is walked in key order
RECURSIVE MapToVector(_)
MapToVector(reg) ==
    IF reg = {} THEN << >>
    ELSE LET e == CHOOSE x \in reg : \A y \in reg : x.key <= y.key
         IN <<<<e.key, e.rssi>>>> \o MapToVector(reg \ {e})

\* mutant of RssiGreater: the comparison turned round
RssiLess(a, b) == a[2] < b[2]

\* the comparator handed to std::sort: a goes before b
RssiGreater(a, b) == a[2] > b[2]

Range(s) == {s[i] : i \in 1..Len(s)}

\* std::sort: some permutation in which no element is placed before one that
\* the comparator orders ahead of it (the order of equal elements is not fixed)
SortOutcomes(v) ==
    {s \in [1..Len(v) -> Range(v)] :
        /\ \A x \in Range(v) :
              Cardinality({i \in 1..Len(v) : s[i] = x})
                = Cardinality({i \in 1..Len(v) : v[i] = x})
        /\ \A i, j \in 1..Len(v) : i < j => ~RssiGreater(s[j], s[i])}

\* ------------------------------------------------- shared sub-operations
\* the peripheral has no control service
NoGatt == [controlService |-> FALSE, controlReg |-> FALSE, canWrite |-> FALSE]

\* what a peripheral can offer: the control service or not, in it the
\* control register or not, and the register writable or not
Gatts ==
    {g \in [controlService : BOOLEAN, controlReg : BOOLEAN,
            canWrite : BOOLEAN] :
        /\ g.controlReg => g.controlService
        /\ g.canWrite => g.controlReg}

\* the session of the client is over: its attribute table is out of reach
\* and the record of its writer call is dropped
ForgetSession ==
    /\ gatt' = NoGatt
    /\ unlockCalls' = 0
    /\ unlockRet' = FALSE
    /\ written' = << >>

\* startScan() without the write of scanCompleted (lines 393-425): the
\* registry is emptied, the prompt flag dropped, and a round is started
StartScanCore ==
    /\ foundDevices' = ClearRegistry(foundDevices)
    /\ waitingForUserInput' = FALSE
    /\ scanActive' = TRUE
    /\ scanTick' = ~scanTick
    /\ latest' = [a \in Addrs |-> NoRssi]

StartScan ==
    /\ StartScanCore
    /\ scanCompleted' = FALSE

\* the globals after setup(): the state the board is in when loop() runs
\* for the first time
CtlInit ==
    /\ pc = "loop"
    /\ pClient = NULL
    /\ linkUp = FALSE
    /\ discEvents = 0
    /\ targetDevice = NoDevice
    /\ deviceFound = FALSE
    /\ isConnected = FALSE
    /\ scanCompleted = FALSE
    /\ waitingForUserInput = FALSE
    /\ foundDevices = {}
    /\ sortedDevices = << >>
    /\ scanActive = TRUE
    /\ serialIn = NoLine
    /\ scanTick = FALSE
    /\ latest = [a \in Addrs |-> NoRssi]
    /\ cb = "idle"
    /\ leaked = FALSE
    /\ gatt = NoGatt
    /\ unlockCalls = 0
    /\ unlockRet = FALSE
    /\ written = << >>

Init ==
    /\ CtlInit
    /\ chrs = << >>
    /\ chrPos = 1
    /\ xpc = "next"
    /\ formattedValue = ""
    /\ emitted = << >>

\* a load through a null pointer panics the board: the radio, the heap and
\* the globals are reset and setup() runs again
Reboot ==
    /\ pc' = "boot"
    /\ pClient' = NULL
    /\ linkUp' = FALSE
    /\ discEvents' = 0
    /\ targetDevice' = NoDevice
    /\ deviceFound' = FALSE
    /\ isConnected' = FALSE
    /\ scanCompleted' = FALSE
    /\ waitingForUserInput' = FALSE
    /\ foundDevices' = {}
    /\ sortedDevices' = << >>
    /\ scanActive' = FALSE
    /\ serialIn' = NoLine
    /\ latest' = [a \in Addrs |-> NoRssi]
    /\ cb' = "idle"
    /\ leaked' = FALSE
    /\ ForgetSession
    /\ UNCHANGED <<scanTick, explorer>>

\* setup() after a restart of the board: the first scan is started
Setup ==
    /\ pc = "boot"
    /\ StartScan
    /\ pc' = "loop"
    /\ UNCHANGED <<pClient, linkUp, discEvents, targetDevice, deviceFound,
                   isConnected, sortedDevices, serialIn, cb, leaked>>
    /\ UNCHANGED <<unlock, explorer>>

\* ------------------------------------------------ BLE host task callbacks
\* MyAdvertisedDeviceCallbacks::onResult.  The copy that the entry of the
\* address held before is neither deleted nor kept anywhere
OnResult(ad) ==
    /\ cb = "idle"
    /\ scanActive
    /\ IF Admitted(ad)
       THEN /\ foundDevices' =
                 MapAssign(foundDevices, ad.addr, DeviceCopy(ad), ad.rssi)
            /\ leaked' = (leaked \/ ad.addr \in Keys(foundDevices))
       ELSE UNCHANGED <<foundDevices, leaked>>
    /\ latest' = IF QualifyingName(ad)
                 THEN [latest EXCEPT ![ad.addr] = <<ad.rssi>>] ELSE latest
    /\ UNCHANGED <<pc, pClient, linkUp, discEvents, targetDevice, deviceFound,
                   isConnected, scanCompleted, waitingForUserInput,
                   sortedDevices, scanActive, serialIn, scanTick, cb>>
    /\ UNCHANGED <<unlock, explorer>>

\* displayFoundDevices(): the snapshot and the prompt
DisplayFoundDevices ==
    /\ \E s \in SortOutcomes(MapToVector(foundDevices)) : sortedDevices' = s
    /\ waitingForUserInput' = TRUE

\* the lambda handed to pBLEScan->start: the round is over
ScanComplete ==
    /\ cb = "idle"
    /\ scanActive
    /\ IF foundDevices = {}
       THEN /\ StartScanCore
            /\ UNCHANGED sortedDevices
       ELSE /\ DisplayFoundDevices
            /\ scanActive' = FALSE
            /\ UNCHANGED <<foundDevices, scanTick, latest>>
    /\ scanCompleted' = TRUE
    /\ UNCHANGED <<pc, pClient, linkUp, discEvents, targetDevice, deviceFound,
                   isConnected, serialIn, cb, leaked>>
    /\ UNCHANGED <<unlock, explorer>>

\* the peer or the radio drops the link: the stack clears the client's
\* connected flag and queues the disconnect callback
LinkLost ==
    /\ linkUp
    /\ discEvents < MaxDiscEvents
    /\ linkUp' = FALSE
    /\ discEvents' = discEvents + 1
    /\ UNCHANGED <<pc, pClient, targetDevice, deviceFound, isConnected,
                   scanCompleted, waitingForUserInput, foundDevices,
                   sortedDevices, scanActive, serialIn, scanTick, latest,
                   cb, leaked>>
    /\ UNCHANGED <<unlock, explorer>>

\* MyClientCallback::onDisconnect, lines 226-232, and of the startScan() it
\* calls lines 394-403: the stored copies are deleted and the registry is
\* cleared.  The loop task runs on the other core and may take steps
\* between this and the rest of startScan()
OnDisconnect ==
    /\ cb = "idle"
    /\ discEvents > 0
    /\ discEvents' = discEvents - 1
    /\ isConnected' = FALSE
    /\ targetDevice' = NoDevice
    /\ foundDevices' = ClearRegistry(foundDevices)
    /\ latest' = [a \in Addrs |-> NoRssi]
    /\ cb' = "od_scan"
    /\ IF linkUp THEN UNCHANGED unlock ELSE ForgetSession
    /\ UNCHANGED <<pc, pClient, linkUp, deviceFound, scanCompleted,
                   waitingForUserInput, sortedDevices, scanActive, serialIn,
                   scanTick, leaked>>
    /\ UNCHANGED explorer

\* the rest of the startScan() called by onDisconnect, lines 406-424: the
\* flags are cleared and the round is started
OnDisconnectScan ==
    /\ cb = "od_scan"
    /\ scanCompleted' = FALSE
    /\ waitingForUserInput' = FALSE
    /\ scanActive' = TRUE
    /\ scanTick' = ~scanTick
    /\ cb' = "idle"
    /\ UNCHANGED <<pc, pClient, linkUp, discEvents, targetDevice, deviceFound,
                   isConnected, foundDevices, sortedDevices, serialIn,
                   latest, leaked>>
    /\ UNCHANGED <<unlock, explorer>>

\* the operator answers the prompt with a line; the receive buffer holds
\* one line at a time
OperatorTypes(line) ==
    /\ waitingForUserInput
    /\ serialIn = NoLine
    /\ serialIn' = <<line>>
    /\ UNCHANGED <<pc, pClient, linkUp, discEvents, targetDevice, deviceFound,
                   isConnected, scanCompleted, waitingForUserInput,
                   foundDevices, sortedDevices, scanActive, scanTick, latest,
                   cb, leaked>>
    /\ UNCHANGED <<unlock, explorer>>

\* ------------------------------------------------------------ loop task
\* the test of processUserSelection on the parsed number
ValidSelection(selection, size) == selection > 0 /\ selection <= size

\* Serial.available() at the prompt: loop() line 447 and line 312
LineAtPrompt == waitingForUserInput /\ serialIn # NoLine

\* loop() lines 447-449 with processUserSelection() up to the call of
\* connectToDevice(), when a line is there to be read.  The target that was
\* bound before is overwritten, not deleted.  For an address the registry
\* no longer holds, foundDevices[selectedAddress] makes an entry with a null
\* record, and the copy made from it loads through null
ProcessUserSelection ==
    /\ pc = "loop"
    /\ LineAtPrompt
    /\ LET selection == ToInt(Trim(serialIn[1])) IN
       IF ValidSelection(selection, Len(sortedDevices))
       THEN LET selectedAddress == sortedDevices[selection][1] IN
            IF selectedAddress \in Keys(foundDevices)
            THEN /\ targetDevice' = MapAt(foundDevices, selectedAddress).dev
                 /\ leaked' = (leaked \/ targetDevice # NoDevice)
                 /\ deviceFound' = TRUE
                 /\ waitingForUserInput' = FALSE
                 /\ serialIn' = NoLine
                 /\ pc' = "ctd_check"
                 /\ UNCHANGED <<pClient, linkUp, discEvents, isConnected,
                                scanCompleted, foundDevices, sortedDevices,
                                scanActive, scanTick, latest, cb>>
                 /\ UNCHANGED <<unlock, explorer>>
            ELSE Reboot
       ELSE /\ serialIn' = NoLine
            /\ pc' = "linkcheck"
            /\ UNCHANGED <<pClient, linkUp, discEvents, targetDevice,
                           deviceFound, isConnected, scanCompleted,
                           waitingForUserInput, foundDevices, sortedDevices,
                           scanActive, scanTick, latest, cb, leaked>>
            /\ UNCHANGED <<unlock, explorer>>

\* connectToDevice() line 344
CTD_Check ==
    /\ pc = "ctd_check"
    /\ pc' = IF targetDevice = NoDevice THEN "pus_fail" ELSE "ctd_print"
    /\ UNCHANGED <<pClient, linkUp, discEvents, targetDevice, deviceFound,
                   isConnected, scanCompleted, waitingForUserInput,
                   foundDevices, sortedDevices, scanActive, serialIn,
                   scanTick, latest, cb, leaked>>
    /\ UNCHANGED <<unlock, explorer>>

\* connectToDevice() lines 346-347: targetDevice->getAddress()
CTD_Print ==
    /\ pc = "ctd_print"
    /\ \/ /\ pc' = "ctd_newclient"
          /\ UNCHANGED <<pClient, linkUp, discEvents, targetDevice,
                         deviceFound, isConnected, scanCompleted,
                         waitingForUserInput, foundDevices, sortedDevices,
                         scanActive, serialIn, scanTick, latest, cb, leaked>>
          /\ UNCHANGED <<unlock, explorer>>
       \/ /\ targetDevice = NoDevice
          /\ Reboot

\* connectToDevice() lines 349-355: the prior client is disconnected and
\* deleted, a new one is created.  Closing a link that is still up raises a
\* disconnect event for a client object that is already deleted: its
\* callback may still run or be lost
CTD_NewClient ==
    /\ pc = "ctd_newclient"
    /\ IF pClient # NULL /\ linkUp
       THEN discEvents' \in
              {discEvents, IF discEvents < MaxDiscEvents
                           THEN discEvents + 1 ELSE discEvents}
       ELSE discEvents' = discEvents
    /\ pClient' = "client"
    /\ linkUp' = FALSE
    /\ ForgetSession
    /\ pc' = "ctd_connect"
    /\ UNCHANGED <<targetDevice, deviceFound, isConnected, scanCompleted,
                   waitingForUserInput, foundDevices, sortedDevices,
                   scanActive, serialIn, scanTick, latest, cb, leaked>>
    /\ UNCHANGED explorer

\* connectToDevice() lines 357-360: pClient->connect(targetDevice); on
\* success the stack runs MyClientCallback::onConnect before it returns
CTD_Connect ==
    /\ pc = "ctd_connect"
    /\ \/ /\ targetDevice # NoDevice
          /\ linkUp' = TRUE
          /\ isConnected' = TRUE
          /\ pc' = "ctd_services"
          /\ UNCHANGED <<pClient, discEvents, targetDevice, deviceFound,
                         scanCompleted, waitingForUserInput, foundDevices,
                         sortedDevices, scanActive, serialIn, scanTick,
                         latest, cb, leaked>>
          /\ UNCHANGED <<unlock, explorer>>
       \/ /\ pc' = "pus_fail"
          /\ UNCHANGED <<pClient, linkUp, discEvents, targetDevice,
                         deviceFound, isConnected, scanCompleted,
                         waitingForUserInput, foundDevices, sortedDevices,
                         scanActive, serialIn, scanTick, latest, cb, leaked>>
          /\ UNCHANGED <<unlock, explorer>>
       \/ /\ targetDevice = NoDevice
          /\ Reboot

\* connectToDevice() lines 365-369: pClient->getServices(), which reads the
\* attribute table of the peripheral
CTD_GetServices ==
    /\ pc = "ctd_services"
    /\ \E services \in {"map", NULL} :
          IF services = NULL
          THEN /\ pc' = "pus_fail"
               /\ UNCHANGED gatt
          ELSE /\ pc' = "ctd_explore"
               /\ \E g \in Gatts : gatt' = g
    /\ UNCHANGED <<pClient, linkUp, discEvents, targetDevice, deviceFound,
                   isConnected, scanCompleted, waitingForUserInput,
                   foundDevices, sortedDevices, scanActive, serialIn,
                   scanTick, latest, cb, leaked>>
    /\ UNCHANGED <<unlockCalls, unlockRet, written, explorer>>

\* connectToDevice() lines 372-379: exploreService for the listed services;
\* it prints and changes nothing
CTD_Explore ==
    /\ pc = "ctd_explore"
    /\ pc' = "ctd_write"
    /\ UNCHANGED <<pClient, linkUp, discEvents, targetDevice, deviceFound,
                   isConnected, scanCompleted, waitingForUserInput,
                   foundDevices, sortedDevices, scanActive, serialIn,
                   scanTick, latest, cb, leaked>>
    /\ UNCHANGED <<unlock, explorer>>

\* uint8_t magicWordBytesBE[] = {0x33, 0x74, 0x12, 0xE4}
magicWordBytesBE == <<51, 116, 18, 228>>

\* mutant of WriteControlRegister: canWrite() is not asked
WriteUnchecked(client, connected, g) ==
    IF client = NULL \/ ~connected
    THEN [ret |-> FALSE, written |-> << >>]
    ELSE IF ~g.controlService THEN [ret |-> FALSE, written |-> << >>]
    ELSE IF ~g.controlReg THEN [ret |-> FALSE, written |-> << >>]
    ELSE [ret |-> TRUE,
          written |-> <<[value |-> magicWordBytesBE, response |-> TRUE]>>]

\* writeControlRegister(): what it returns and the writes it issues
WriteControlRegister(client, connected, g) ==
    IF client = NULL \/ ~connected
    THEN [ret |-> FALSE, written |-> << >>]
    ELSE IF ~g.controlService THEN [ret |-> FALSE, written |-> << >>]
    ELSE IF ~g.controlReg THEN [ret |-> FALSE, written |-> << >>]
    ELSE IF g.canWrite
    THEN [ret |-> TRUE,
          written |-> <<[value |-> magicWordBytesBE, response |-> TRUE]>>]
    ELSE [ret |-> FALSE, written |-> << >>]

\* mutant of CTD_Write: a failed write is tried again
CTD_WriteRetry ==
    /\ pc = "ctd_write"
    /\ LET r == WriteControlRegister(pClient, linkUp, gatt) IN
       /\ unlockCalls' = IF r.ret THEN unlockCalls + 1 ELSE unlockCalls + 2
       /\ unlockRet' = r.ret
       /\ written' = r.written
    /\ pc' = "linkcheck"
    /\ UNCHANGED <<pClient, linkUp, discEvents, targetDevice, deviceFound,
                   isConnected, scanCompleted, waitingForUserInput,
                   foundDevices, sortedDevices, scanActive, serialIn,
                   scanTick, latest, cb, leaked>>
    /\ UNCHANGED <<gatt, explorer>>

\* connectToDevice() lines 381-390: writeControlRegister() is called, its
\* result is printed, and connectToDevice() returns true
CTD_Write ==
    /\ pc = "ctd_write"
    /\ LET r == WriteControlRegister(pClient, linkUp, gatt) IN
       /\ unlockCalls' = unlockCalls + 1
       /\ unlockRet' = r.ret
       /\ written' = r.written
    /\ pc' = "linkcheck"
    /\ UNCHANGED <<pClient, linkUp, discEvents, targetDevice, deviceFound,
                   isConnected, scanCompleted, waitingForUserInput,
                   foundDevices, sortedDevices, scanActive, serialIn,
                   scanTick, latest, cb, leaked>>
    /\ UNCHANGED <<gatt, explorer>>

\* mutant of PUS_Fail: the target is released but the scan is not restarted
PUS_FailNoRestart ==
    /\ pc = "pus_fail"
    /\ targetDevice' = NoDevice
    /\ pc' = "linkcheck"
    /\ UNCHANGED <<pClient, linkUp, discEvents, deviceFound, isConnected,
                   scanCompleted, waitingForUserInput, foundDevices,
                   sortedDevices, scanActive, serialIn, scanTick, latest,
                   cb, leaked>>
    /\ UNCHANGED <<unlock, explorer>>

\* processUserSelection() lines 331-336: connectToDevice() returned false
PUS_Fail ==
    /\ pc = "pus_fail"
    /\ targetDevice' = NoDevice
    /\ StartScan
    /\ pc' = "linkcheck"
    /\ UNCHANGED <<pClient, linkUp, discEvents, deviceFound, isConnected,
                   sortedDevices, serialIn, cb, leaked>>
    /\ UNCHANGED <<unlock, explorer>>

\* the condition of the link-loss branch of loop(), line 452
LinkLossSeen == isConnected /\ pClient # NULL /\ ~linkUp

\* loop() lines 451-461; a tick that finds no line to read at the prompt
\* (lines 447-449 and 312 change nothing) comes here at once
LoopLinkCheck ==
    /\ pc = "linkcheck" \/ (pc = "loop" /\ ~LineAtPrompt)
    /\ IF LinkLossSeen
       THEN /\ isConnected' = FALSE
            /\ pClient' = NULL
            /\ StartScan
            /\ ForgetSession
       ELSE UNCHANGED <<isConnected, pClient, scanCompleted,
                        waitingForUserInput, foundDevices, scanActive,
                        scanTick, latest, unlock>>
    /\ pc' = "loop"
    /\ UNCHANGED <<linkUp, discEvents, targetDevice, deviceFound,
                   sortedDevices, serialIn, cb, leaked>>
    /\ UNCHANGED explorer

\* ------------------------------------------------------- specifications
LoopTask ==
    \/ Setup
    \/ ProcessUserSelection
    \/ CTD_Check
    \/ CTD_Print
    \/ CTD_NewClient
    \/ CTD_Connect
    \/ CTD_GetServices
    \/ CTD_Explore
    \/ CTD_Write
    \/ PUS_Fail
    \/ LoopLinkCheck

\* the disconnect callback, from its start to its return
HostDisconnect ==
    \/ OnDisconnect
    \/ OnDisconnectScan

Next ==
    \/ LoopTask
    \/ \E ad \in Advertisements : OnResult(ad)
    \/ ScanComplete
    \/ LinkLost
    \/ HostDisconnect
    \/ \E line \in Lines : OperatorTypes(line)

Spec == Init /\ [][Next]_vars

\* The scheduling of the three tasks does not depend on the signal strength
\* of an advertisement or on the text of a rejected line: for the liveness
\* check the environment offers one advertisement per address, one that does
\* not qualify, both valid selections and one invalid line.
LiveAdvertisements ==
    {ad \in Advertisements : ad.rssi = IF ad.addr = 1 THEN -40 ELSE -70}

LiveLines == { <<"0">>, <<"1">>, <<"2">> }

LiveNext ==
    \/ LoopTask
    \/ \E ad \in LiveAdvertisements : OnResult(ad)
    \/ ScanComplete
    \/ LinkLost
    \/ HostDisconnect
    \/ \E line \in LiveLines : OperatorTypes(line)

\* loop() is called again and again by the Arduino core, a scan round ends
\* after its fixed duration, and the stack delivers a queued disconnect
\* callback and lets it run to its end
FairSpec ==
    /\ Init
    /\ [][LiveNext]_vars
    /\ WF_vars(LoopTask)
    /\ WF_vars(ScanComplete)
    /\ WF_vars(HostDisconnect)

\* ------------------------------------------------------------- claims
\* a step of the loop task that handles a failed connectToDevice()
FailedConnectHandled == pc = "pus_fail" /\ pc' = "linkcheck"

\* C1: whenever a connect attempt started by a valid selection fails, the
\* controller ends up scanning with the target released, the client object
\* of the attempt discarded and no link open.
C1_FailedConnectLeavesNoSession ==
    [][FailedConnectHandled =>
         /\ scanActive'
         /\ targetDevice' = NoDevice
         /\ pClient' = NULL
         /\ ~linkUp']_vars

\* a step in which a disconnect is turned into a scan restart: the
\* onDisconnect callback when it starts the round (the loop task stays
\* where it is), or the link-loss branch of loop() (it clears isConnected
\* and consumes no event)
DisconnectRestart ==
    /\ scanTick' # scanTick
    /\ \/ cb = "od_scan" /\ cb' = "idle" /\ pc' = pc
       \/ /\ pc \in {"loop", "linkcheck"} /\ pc' = "loop"
          /\ LinkLossSeen /\ ~isConnected'
          /\ discEvents' = discEvents

\* C2: for every disconnect event, when the next scan round is started the
\* bound target is null and the client object has been deleted and cleared.
C2_DisconnectReleasesTargetAndClient ==
    [][DisconnectRestart =>
         /\ targetDevice' = NoDevice
         /\ pClient' = NULL]_vars

\* C3: at every point where connectToDevice reads targetDevice (the print of
\* its address, the connect call) targetDevice is not null.
C3_TargetBoundWhereRead ==
    pc \in {"ctd_print", "ctd_connect"} => targetDevice # NoDevice

\* C4: while the client link is connected no scan round is active and no
\* selection prompt is shown.
C4_NoScanWhileConnected ==
    linkUp => ~scanActive /\ ~waitingForUserInput

\* a step of processUserSelection() that reads a line at the prompt
SelectionRead == pc = "loop" /\ LineAtPrompt /\ pc' # pc

\* what a selection step does when it rejects the line: the line is consumed
\* and the session is as before
SelectionRejected ==
    /\ pc' = "linkcheck"
    /\ waitingForUserInput'
    /\ UNCHANGED <<pClient, linkUp, discEvents, targetDevice, deviceFound,
                   isConnected, scanCompleted, foundDevices, sortedDevices,
                   scanActive>>

\* what a selection step does when it binds the k-th snapshot entry
SelectionBinds(k) ==
    /\ targetDevice' # NoDevice
    /\ targetDevice'.addr = sortedDevices[k][1]
    /\ pc' = "ctd_check"
    /\ ~waitingForUserInput'
    /\ UNCHANGED <<foundDevices, sortedDevices>>

\* the text is a decimal number: an optional minus sign and digits only
IsNumeral(t) ==
    LET d == IF t # << >> /\ Head(t) = "-" THEN Tail(t) ELSE t
    IN d # << >> /\ \A i \in 1..Len(d) : IsDigit(d[i])

\* C5: at the prompt with a snapshot of N devices, a line that is
\* not a number, or whose number is 0, negative or greater than N, is
\* rejected and leaves the session unchanged; a number k in 1..N binds the
\* device whose address is the k-th snapshot entry and enters
\* connectToDevice.
C5_NonNumericRejected ==
    [][SelectionRead =>
         LET t == Trim(serialIn[1])
             k == ToInt(t)
         IN IF IsNumeral(t) /\ 1 <= k /\ k <= Len(sortedDevices)
            THEN SelectionBinds(k)
            ELSE SelectionRejected]_vars

\* the loop task is inside connectToDevice() before the outcome of connect()
Connecting == pc \in {"ctd_check", "ctd_print", "ctd_newclient", "ctd_connect"}

\* nothing is in progress: the loop task is between two ticks, no disconnect
\* callback is queued or running and loop() has no link loss to handle
Quiescent ==
    /\ pc \in {"loop", "linkcheck"}
    /\ discEvents = 0
    /\ cb = "idle"
    /\ ~LinkLossSeen

\* the controller is in none of Scanning, AwaitingSelection, Connected
NoSession == ~scanActive /\ ~waitingForUserInput /\ ~linkUp

C7_RegistryClearedOnlyAtRoundStart ==
    [][/\ scanTick' # scanTick => foundDevices' = {}
       /\ Keys(foundDevices) \ Keys(foundDevices') # {}
            => scanTick' # scanTick \/ cb' = "od_scan" \/ pc' = "boot"
       /\ (scanActive \/ waitingForUserInput) /\ pc' # "boot"
            => Keys(foundDevices) \subseteq Keys(foundDevices')]_vars

\* C8: a round that completes with an empty registry restarts the scan and
\* shows no prompt; one that completes with entries computes the snapshot
\* and shows the prompt, which stays, with the same snapshot, until a
\* selection is read; a prompt is only shown with a non-empty snapshot.
C8_PromptOnlyAfterNonEmptyRound ==
    [][/\ (scanActive /\ ~scanActive') =>
            /\ foundDevices # {}
            /\ waitingForUserInput'
       /\ (scanActive /\ scanCompleted' /\ scanTick' # scanTick) =>
            /\ foundDevices = {}
            /\ scanActive' /\ ~waitingForUserInput'
       /\ waitingForUserInput' => sortedDevices' # << >>
       /\ (waitingForUserInput /\ waitingForUserInput') =>
            sortedDevices' = sortedDevices
       /\ (waitingForUserInput /\ ~waitingForUserInput') =>
            pc = "loop" /\ pc' = "ctd_check"]_vars

\* C9: every registry entry has a name with the prefix, there is at most one
\* entry per address, and the entry of an address carries the signal strength
\* of the last qualifying advertisement of the round for that address; an
\* address without one has no entry.
C9_RegistryLastWriteWins ==
    /\ \A e \in foundDevices : QualifyingName([haveName |-> TRUE,
                                               name |-> e.dev.name])
    /\ \A a \in Addrs :
          /\ Cardinality({e \in foundDevices : e.key = a}) <= 1
          /\ latest[a] = NoRssi => a \notin Keys(foundDevices)
          /\ latest[a] # NoRssi =>
                \E e \in foundDevices :
                   e.key = a /\ e.dev.addr = a /\ <<e.rssi>> = latest[a]

\* both addresses are in the registry, one of them with the stronger signal
C9_Witness ==
    /\ scanActive
    /\ Keys(foundDevices) = Addrs
    /\ \E e \in foundDevices : e.rssi = -40 /\ latest[e.key] = <<-40>>
    /\ \E e \in foundDevices : e.rssi = -70

\* s lists each registry entry once, strongest signal first
SnapshotOf(s, reg) ==
    /\ Len(s) = Cardinality(reg)
    /\ {s[i] : i \in 1..Len(s)} = {<<e.key, e.rssi>> : e \in reg}
    /\ \A i \in 1..Len(s) : \A j \in 1..Len(s) : i < j => s[i][2] >= s[j][2]

\* C10: the snapshot computed by displayFoundDevices holds one pair per
\* registry entry and no others, in order of non-increasing signal
\* strength, and computing it leaves the registry as it was.
C10_SnapshotSortedAndReadOnly ==
    [][(~waitingForUserInput /\ waitingForUserInput') =>
         /\ foundDevices' = foundDevices
         /\ SnapshotOf(sortedDevices', foundDevices)]_vars

\* a prompt whose snapshot had to be reordered against the map's key order
C10_Witness ==
    /\ waitingForUserInput
    /\ Len(sortedDevices) = 2
    /\ sortedDevices[1][1] = 2
    /\ sortedDevices[1][2] > sortedDevices[2][2]

\* the entries of s that have the same signal strength stand in s in the
\* order in which they stand in v
KeepsTieOrder(s, v) ==
    \A i, j \in 1..Len(v) :
       (i < j /\ v[i][2] = v[j][2]) =>
          \E k, l \in 1..Len(s) : k < l /\ s[k] = v[i] /\ s[l] = v[j]

\* C11: in the snapshot computed by displayFoundDevices, entries with equal
\* signal strength keep the order in which the registry is walked (the sort
\* is stable), so the registry content determines the snapshot.
C11_SnapshotStable ==
    [][(~waitingForUserInput /\ waitingForUserInput') =>
         KeepsTieOrder(sortedDevices', MapToVector(foundDevices))]_vars

\* the step of connectToDevice() that calls writeControlRegister()
WriterStep == pc = "ctd_write" /\ pc' # pc

\* C12: writeControlRegister returns false and writes nothing when there is
\* no client or the client is not connected, when the control service or
\* the control register is absent, or when the register is not writable;
\* in the one remaining case it writes the 4 bytes 33 74 12 E4 once, with a
\* response requested, and returns true.
C12_WriterFailsClosed ==
    [][WriterStep =>
         IF \/ pClient = NULL
            \/ ~linkUp
            \/ ~gatt.controlService
            \/ ~gatt.controlReg
            \/ ~gatt.canWrite
         THEN ~unlockRet' /\ written' = << >>
         ELSE /\ unlockRet'
              /\ written' = <<[value |-> <<51, 116, 18, 228>>,
                               response |-> TRUE]>>]_vars

\* the writer has found the control register of a connected peripheral
\* not writable and has written nothing
C12_Witness ==
    /\ pc = "linkcheck"
    /\ unlockCalls = 1
    /\ linkUp
    /\ gatt.controlReg /\ ~gatt.canWrite
    /\ ~unlockRet
    /\ written = << >>

\* C13: in a session the writer is called once and never again; it is
\* called after the exploration and by that step only; and whatever it
\* returns, connectToDevice() returns true: the loop task goes on to the
\* idle tick, and the call changes neither the scanner nor the session.
C13_WriterOncePerConnection ==
    /\ [](unlockCalls <= 1)
    /\ [][/\ (pc = "ctd_explore" /\ pc' # pc) => pc' = "ctd_write"
          /\ unlockCalls' > unlockCalls => WriterStep
          /\ WriterStep =>
               /\ unlockCalls = 0 /\ unlockCalls' = 1
               /\ pc' = "linkcheck"
               /\ UNCHANGED <<scanTick, scanActive, waitingForUserInput,
                              foundDevices, targetDevice, pClient, linkUp,
                              isConnected>>]_vars

\* the writer has failed on a peripheral without control service, and the
\* session goes on: connected, no scan, no prompt
C13_Witness ==
    /\ pc = "linkcheck"
    /\ unlockCalls = 1
    /\ ~unlockRet
    /\ ~gatt.controlService
    /\ linkUp /\ isConnected
    /\ ~scanActive /\ ~waitingForUserInput

\* ------------------------------------------------ attribute tree explorer
\* the longest characteristic value drawn
MaxRawLen == 4

\* byte values at the edges of the printable range, and a smaller choice for
\* the values of three bytes and more
EdgeBytes == {0, 31, 32, 65, 126, 127, 255}
WideBytes == {0, 65, 255}

\* what readValue() of a characteristic can return
Raws ==
    UNION {[1..n -> IF n <= 2 THEN EdgeBytes ELSE WideBytes] :
             n \in 0..MaxRawLen}

\* format codes: the six of the switch and three it does not know
FormatBytes == {0, 1, 2, 4, 6, 8, 10, 14, 255}

\* exponent byte and unit code of a descriptor: 10^0 without unit, 10^1 km/h,
\* 10^-1 per cent, 10^-2 with a unit code that unitMap does not hold
ScaleAndUnit == {<<0, 0, 39>>, <<1, 99, 39>>, <<255, 179, 39>>,
                 <<254, 52, 18>>}

\* what readValue() of a presentation-format descriptor can return: nothing,
\* six bytes, or the seven bytes format, exponent, unit, namespace,
\* description
CpfDatas ==
    {<< >>, <<6, 0, 0, 39, 1, 0>>}
      \cup {<<f, su[1], su[2], su[3], 1, 0, 0>> :
              f \in FormatBytes, su \in ScaleAndUnit}

\* a characteristic: readable or not, its value, and its 0x2904 descriptor
Characteristics ==
    [canRead : {TRUE}, raw : Raws, hasCpf : {TRUE}, cpfData : CpfDatas]
      \cup [canRead : {TRUE}, raw : Raws, hasCpf : {FALSE}, cpfData : {<< >>}]
      \cup [canRead : {FALSE}, raw : {<<65>>}, hasCpf : {FALSE},
            cpfData : {<< >>}]

\* the characteristics that can follow the first one of a service
LaterCharacteristics ==
    {[canRead |-> FALSE, raw |-> <<65>>, hasCpf |-> FALSE, cpfData |-> << >>],
     [canRead |-> TRUE, raw |-> <<83, 107, 112>>, hasCpf |-> FALSE,
      cpfData |-> << >>]}

\* int8_t exponent = cpfData[1]
Int8(b) == IF b >= 128 THEN b - 256 ELSE b

\* unitMap, with the default of line 75 for a code it does not hold (the
\* degree sign is written deg)
UnitText(unitUUID) ==
    CASE unitUUID = 10083 -> "km/h"
      [] unitUUID = 10157 -> "rpm"
      [] unitUUID = 9985 -> "m"
      [] unitUUID = 10161 -> "degC"
      [] unitUUID = 10163 -> "%"
      [] unitUUID = 10158 -> "V"
      [] unitUUID = 10156 -> "A"
      [] OTHER -> ""

\* the load *(reinterpret_cast<const T*>(rawValue.data())) of n bytes, least
\* significant first: the bytes, most significant first, and the positions
\* read.  A position behind the value holds whatever the memory holds
LoadBytes(raw, n) ==
    [bytes |-> [i \in 1..n |->
                  IF n + 1 - i <= Len(raw) THEN raw[n + 1 - i] ELSE 0],
     reads |-> 1..n]

\* division by ten of a number given by its bytes, most significant first
RECURSIVE DivTen(_, _, _)
DivTen(bs, r, q) ==
    IF bs = << >> THEN <<q, r>>
    ELSE DivTen(Tail(bs), (r * 256 + Head(bs)) % 10,
                Append(q, (r * 256 + Head(bs)) \div 10))

\* the decimal digits of that number, most significant first; none for zero
RECURSIVE DecDigits(_)
DecDigits(bs) ==
    IF \A i \in 1..Len(bs) : bs[i] = 0 THEN << >>
    ELSE LET d == DivTen(bs, 0, << >>) IN Append(DecDigits(d[1]), d[2])

\* one added to a number given by its bytes, most significant first
RECURSIVE PlusOne(_)
PlusOne(bs) ==
    IF bs = << >> THEN << >>
    ELSE IF bs[Len(bs)] = 255
         THEN Append(PlusOne(SubSeq(bs, 1, Len(bs) - 1)), 0)
         ELSE Append(SubSeq(bs, 1, Len(bs) - 1), bs[Len(bs)] + 1)

\* the magnitude of a negative two's complement number
Negated(bs) == PlusOne([i \in 1..Len(bs) |-> 255 - bs[i]])

RECURSIVE JoinDigits(_)
JoinDigits(ds) ==
    IF ds = << >> THEN "" ELSE ToString(Head(ds)) \o JoinDigits(Tail(ds))

Zeros(n) == [i \in 1..n |-> 0]

\* one added to a number given by its decimal digits
RECURSIVE PlusOneDec(_)
PlusOneDec(ds) ==
    IF ds = << >> THEN <<1>>
    ELSE IF ds[Len(ds)] = 9
         THEN Append(PlusOneDec(SubSeq(ds, 1, Len(ds) - 1)), 0)
         ELSE Append(SubSeq(ds, 1, Len(ds) - 1), ds[Len(ds)] + 1)

\* String(val * pow(10, exponent), 2) for an integer val given by sign and
\* digits: the digits of the hundredths (rounded, for an exponent below -2,
\* on the third decimal), then the point set before the last two
FixedText(negative, digits, exponent) ==
    LET shifted == IF exponent >= -2
                   THEN IF digits = << >> THEN << >>
                        ELSE digits \o Zeros(exponent + 2)
                   ELSE LET cut == 0 - exponent - 2
                            keep == IF Len(digits) > cut
                                    THEN SubSeq(digits, 1, Len(digits) - cut)
                                    ELSE << >>
                            next == IF Len(digits) >= cut
                                    THEN digits[Len(digits) - cut + 1] ELSE 0
                        IN IF next >= 5 THEN PlusOneDec(keep) ELSE keep
        padded == Zeros(IF Len(shifted) < 3 THEN 3 - Len(shifted) ELSE 0)
                    \o shifted
    IN (IF negative THEN "-" ELSE "")
         \o JoinDigits(SubSeq(padded, 1, Len(padded) - 2))
         \o "." \o JoinDigits(SubSeq(padded, Len(padded) - 1, Len(padded)))

\* String(val * pow(10, exponent), 2) for a float given by its four bytes,
\* most significant first.  The digits of a finite value other than zero
\* are not worked out: the text names the value by sign, significand,
\* binary exponent and decimal exponent
Float32Text(bs, exponent) ==
    LET negative == bs[1] >= 128
        biased == (bs[1] % 128) * 2 + bs[2] \div 128
        fraction == (bs[2] % 128) * 65536 + bs[3] * 256 + bs[4]
        sign == IF negative THEN "-" ELSE ""
    IN IF biased = 255
       THEN IF fraction = 0 THEN sign \o "inf" ELSE "nan"
       ELSE IF biased = 0 /\ fraction = 0 THEN sign \o "0.00"
       ELSE sign
              \o ToString(IF biased = 0 THEN fraction ELSE 8388608 + fraction)
              \o "*2^" \o ToString(IF biased = 0 THEN -149 ELSE biased - 150)
              \o "*10^" \o ToString(exponent)

\* mutant of MinSize: a uint16 is taken from a value of one byte
MinSizeShort(format) ==
    CASE format \in {4, 8, 14} -> 4
      [] format = 6 -> 1
      [] format = 10 -> 2
      [] OTHER -> 0

\* the size tests of convertRawValue, lines 83, 89, 95, 101, 107
MinSize(format) ==
    CASE format \in {4, 8, 14} -> 4
      [] format \in {6, 10} -> 2
      [] OTHER -> 0

\* convertRawValue with the positions of rawValue it reads
Decode(rawValue, format, exponent, unitUUID) ==
    LET unit == UnitText(unitUUID)
        none == [text |-> "", reads |-> {}]
        word == LoadBytes(rawValue, MinSize(format))
        short == Len(rawValue) < MinSize(format)
        negative == word.bytes[1] >= 128
    IN CASE format = 1 ->
              IF rawValue = << >> THEN [text |-> "false", reads |-> {}]
              ELSE [text |-> IF rawValue[1] # 0 THEN "true" ELSE "false",
                    reads |-> {1}]
         [] format \in {4, 6} ->
              IF short THEN none
              ELSE [text |-> FixedText(FALSE, DecDigits(word.bytes), exponent)
                               \o unit,
                    reads |-> word.reads]
         [] format \in {8, 10} ->
              IF short THEN none
              ELSE [text |-> FixedText(negative,
                                       DecDigits(IF negative
                                                 THEN Negated(word.bytes)
                                                 ELSE word.bytes),
                                       exponent) \o unit,
                    reads |-> word.reads]
         [] format = 14 ->
              IF short THEN none
              ELSE [text |-> Float32Text(word.bytes, exponent) \o unit,
                    reads |-> word.reads]
         [] OTHER -> none

ConvertRawValue(rawValue, format, exponent, unitUUID) ==
    Decode(rawValue, format, exponent, unitUUID).text

\* the characters with the codes 32 to 126 (the grave accent, code 96, is
\* written by its code)
Printable ==
    <<" ", "!", "\"", "#", "$", "%", "&", "'", "(", ")", "*", "+", ",", "-",
      ".", "/", "0", "1", "2", "3", "4", "5", "6", "7", "8", "9", ":", ";",
      "<", "=", ">", "?", "@", "A", "B", "C", "D", "E", "F", "G", "H", "I",
      "J", "K", "L", "M", "N", "O", "P", "Q", "R", "S", "T", "U", "V", "W",
      "X", "Y", "Z", "[", "\\", "]", "^", "_", "<96>", "a", "b", "c", "d", "e",
      "f", "g", "h", "i", "j", "k", "l", "m", "n", "o", "p", "q", "r", "s",
      "t", "u", "v", "w", "x", "y", "z", "{", "|", "}", "~">>

\* the character of a byte; one outside 32..126 is written as its code
\* between angle brackets
Chr(c) ==
    IF c >= 32 /\ c <= 126 THEN Printable[c - 31]
    ELSE "<" \o ToString(c) \o ">"

\* String(rawValue.c_str()): the characters up to the first zero byte
RECURSIVE CStr(_)
CStr(bytes) ==
    IF bytes = << >> \/ Head(bytes) = 0 THEN ""
    ELSE Chr(Head(bytes)) \o CStr(Tail(bytes))

\* mutant of OutsideAscii: the upper limit set one too high
OutsideAsciiWide(c) == c < 32 \/ c > 127

\* the test of line 121; char is an unsigned type on the target
OutsideAscii(c) == c < 32 \/ c > 126

\* the loop of lines 131-133
RECURSIVE DecimalBytes(_)
DecimalBytes(bytes) ==
    IF bytes = << >> THEN ""
    ELSE ToString(Head(bytes)) \o " " \o DecimalBytes(Tail(bytes))

\* fallbackConvert
FallbackConvert(rawValue) ==
    IF rawValue = << >> THEN ""
    ELSE IF \A i \in 1..Len(rawValue) : ~OutsideAscii(rawValue[i])
         THEN CStr(rawValue)
         ELSE DecimalBytes(rawValue)

\* exploreService is called for a service with one or two characteristics
ExploreInit ==
    /\ CtlInit
    /\ chrs \in {<<c>> : c \in Characteristics}
                  \cup {<<c, d>> : c \in Characteristics,
                                   d \in LaterCharacteristics}
    /\ chrPos = 1
    /\ xpc = "next"
    /\ formattedValue = ""
    /\ emitted = << >>

\* line 152 for a characteristic that cannot be read: the loop goes on
ES_Skip ==
    /\ xpc = "next"
    /\ chrPos <= Len(chrs)
    /\ ~chrs[chrPos].canRead
    /\ chrPos' = chrPos + 1
    /\ UNCHANGED <<chrs, xpc, formattedValue, emitted, ctl, unlock>>

\* mutant of ES_Read: a descriptor of seven bytes is taken as too short
ES_ReadLongOnly ==
    /\ xpc = "next"
    /\ chrPos <= Len(chrs)
    /\ chrs[chrPos].canRead
    /\ LET rawValue == chrs[chrPos].raw
           cpfData == chrs[chrPos].cpfData
       IN formattedValue' =
            IF chrs[chrPos].hasCpf /\ Len(cpfData) > 7
            THEN ConvertRawValue(rawValue, cpfData[1], Int8(cpfData[2]),
                                 cpfData[3] + 256 * cpfData[4])
            ELSE ""
    /\ xpc' = "print"
    /\ UNCHANGED <<chrs, chrPos, emitted, ctl, unlock>>

\* lines 152-173: the value is read and, if the characteristic has a
\* presentation-format descriptor of seven bytes or more, converted
ES_Read ==
    /\ xpc = "next"
    /\ chrPos <= Len(chrs)
    /\ chrs[chrPos].canRead
    /\ LET rawValue == chrs[chrPos].raw
           cpfData == chrs[chrPos].cpfData
       IN formattedValue' =
            IF chrs[chrPos].hasCpf /\ Len(cpfData) >= 7
            THEN ConvertRawValue(rawValue, cpfData[1], Int8(cpfData[2]),
                                 cpfData[3] + 256 * cpfData[4])
            ELSE ""
    /\ xpc' = "print"
    /\ UNCHANGED <<chrs, chrPos, emitted, ctl, unlock>>

\* lines 175-181: the fallback for an empty text, and the print
ES_Print ==
    /\ xpc = "print"
    /\ emitted' = Append(emitted,
                         IF Len(formattedValue) = 0
                         THEN FallbackConvert(chrs[chrPos].raw)
                         ELSE formattedValue)
    /\ formattedValue' = ""
    /\ chrPos' = chrPos + 1
    /\ xpc' = "next"
    /\ UNCHANGED <<chrs, ctl, unlock>>

ExploreNext ==
    \/ ES_Skip
    \/ ES_Read
    \/ ES_Print

ExploreSpec == ExploreInit /\ [][ExploreNext]_vars

\* the characteristic has a presentation-format descriptor of seven bytes
\* or more
CpfUsable(c) == c.hasCpf /\ Len(c.cpfData) >= 7

\* what the primary decoder makes of the value under that descriptor
PrimaryOf(c) ==
    ConvertRawValue(c.raw, c.cpfData[1], Int8(c.cpfData[2]),
                    c.cpfData[3] + 256 * c.cpfData[4])

\* the value to be printed for a readable characteristic
ValueOf(c) ==
    IF CpfUsable(c) /\ PrimaryOf(c) # "" THEN PrimaryOf(c)
    ELSE FallbackConvert(c.raw)

\* the values to be printed for a run of characteristics
RECURSIVE ValuesOf(_)
ValuesOf(cs) ==
    IF cs = << >> THEN << >>
    ELSE IF Head(cs).canRead THEN <<ValueOf(Head(cs))>> \o ValuesOf(Tail(cs))
    ELSE ValuesOf(Tail(cs))

\* C14: the explorer prints one value for every readable characteristic it
\* has passed and none for the others: the result of the primary decoder if
\* the characteristic has a presentation-format descriptor of seven bytes or
\* more and that result is not empty, the fallback text of the raw bytes in
\* every other case; a characteristic that is not readable is passed over
\* and the ones behind it are still explored.
C14_OneValuePerReadable ==
    /\ chrPos \in 1..Len(chrs) + 1
    /\ emitted = ValuesOf(SubSeq(chrs, 1, chrPos - 1))

\* the value of the first characteristic was printed as the primary decoder
\* gave it, and the second, not readable, was passed over
C14_Witness ==
    /\ Len(chrs) = 2
    /\ chrPos = 3
    /\ chrs[1].canRead /\ CpfUsable(chrs[1])
    /\ PrimaryOf(chrs[1]) # ""
    /\ ~chrs[2].canRead
    /\ emitted = <<PrimaryOf(chrs[1])>>

\* the step of exploreService that reads and converts a value
ReadStep == xpc = "next" /\ xpc' = "print"

\* C15: convertRawValue gives the empty text exactly when the format code is
\* none of 0x01, 0x04, 0x06, 0x08, 0x0A, 0x0E or the value is shorter than
\* the code needs (2 bytes for 0x06 and 0x0A, 4 for 0x04, 0x08 and 0x0E); it
\* reads no position behind the value; and for 0x01 it gives "false" for an
\* empty value or a first byte of zero, "true" otherwise.
C15_EmptyIffUnsupportedOrShort ==
    [][(ReadStep /\ CpfUsable(chrs[chrPos])) =>
         LET raw == chrs[chrPos].raw
             format == chrs[chrPos].cpfData[1]
             need == CASE format \in {6, 10} -> 2
                       [] format \in {4, 8, 14} -> 4
                       [] OTHER -> 0
         IN /\ (formattedValue' = "") <=>
                  (format \notin {1, 4, 6, 8, 10, 14} \/ Len(raw) < need)
            /\ Decode(raw, format, Int8(chrs[chrPos].cpfData[2]),
                      0).reads \subseteq 1..Len(raw)
            /\ format = 1 =>
                  formattedValue' = IF raw = << >> \/ raw[1] = 0
                                    THEN "false" ELSE "true"]_vars

\* a uint16 was asked of a value of one byte, and the text is empty
C15_Witness ==
    /\ xpc = "print"
    /\ CpfUsable(chrs[chrPos])
    /\ chrs[chrPos].cpfData[1] = 6
    /\ Len(chrs[chrPos].raw) = 1
    /\ formattedValue = ""

\* the step of exploreService that prints a value
PrintStep == xpc = "print" /\ xpc' = "next"

\* the characters of the bytes, one for one
AsText(raw) ==
    LET t[i \in 0..Len(raw)] ==
          IF i = 0 THEN "" ELSE t[i - 1] \o Printable[raw[i] - 31]
    IN t[Len(raw)]

\* the decimal values of the bytes, a blank behind each
AsDecimals(raw) ==
    LET t[i \in 0..Len(raw)] ==
          IF i = 0 THEN "" ELSE t[i - 1] \o ToString(raw[i]) \o " "
    IN t[Len(raw)]

\* C16: fallbackConvert gives the empty text for an empty value; the bytes
\* as text, unchanged, when every byte is in 32..126; otherwise the decimal
\* value (0..255) of each byte followed by one blank, in order; so the text
\* of a value that is not empty is not empty.  For the bytes 0, 255, 65 it
\* is "0 255 65 ".
C16_FallbackText ==
    [][(PrintStep /\ formattedValue = "") =>
         LET raw == chrs[chrPos].raw
             out == emitted'[Len(emitted')]
             printable == \A i \in 1..Len(raw) : raw[i] \in 32..126
         IN /\ raw = << >> => out = ""
            /\ raw # << >> => out # ""
            /\ (raw # << >> /\ printable) => out = AsText(raw)
            /\ (raw # << >> /\ ~printable) => out = AsDecimals(raw)
            /\ raw = <<0, 255, 65>> => out = "0 255 65 "]_vars

\* the fallback text of the bytes 0, 255, 65 has been printed
C16_Witness ==
    /\ chrPos = 2
    /\ chrs[1].raw = <<0, 255, 65>>
    /\ ~chrs[1].hasCpf
    /\ emitted = <<"0 255 65 ">>

\* ------------------------------------------------------ claims, continued
\* C17: startScan is never called while a scan round is in progress or a
\* prompt is waiting, so that one failed connect or one disconnect starts
\* one round.  The calls are those of the connect-failure path, of the
\* disconnect callback and of the link-loss branch of loop(); the restart of
\* an empty round inside the scan-complete callback, which ends the round
\* it restarts, is the one call that sets scanCompleted.
C17_NoRestartWhileScanning ==
    [][(scanTick' # scanTick /\ ~scanCompleted') =>
         ~scanActive /\ ~waitingForUserInput]_vars

\* C18: no device copy is lost: every copy made by onResult or by the
\* selection is held by the registry, is the bound target, or has been
\* deleted; a repeat advertisement deletes the copy it replaces.
C18_NoRecordLeaked == ~leaked

\* the link-loss branch of loop() disconnects and deletes the client
LoopDeletesClient ==
    /\ pc = "linkcheck" \/ (pc = "loop" /\ ~LineAtPrompt)
    /\ pc' = "loop"
    /\ LinkLossSeen
    /\ pClient' = NULL

\* C19: target and client are deleted once and not used afterwards,
\* whatever the interleaving of the disconnect callback with the loop task;
\* of this, the clause that the link-loss branch of loop() does not delete
\* the client while the disconnect callback of that client is still to run
\* or is running.
C19_ClientOutlivesCallback ==
    [][LoopDeletesClient => discEvents = 0 /\ cb = "idle"]_vars

\* C20: whenever the prompt is waiting for the operator, the snapshot is not
\* empty and every address in it is a key of the registry, whose record is
\* then a live copy; a disconnect callback of an earlier session changes
\* nothing in that.
C20_PromptHasLiveSnapshot ==
    waitingForUserInput =>
       /\ sortedDevices # << >>
       /\ \A i \in 1..Len(sortedDevices) :
             sortedDevices[i][1] \in Keys(foundDevices)

====
